---- MODULE Spec2Model ----
(***************************************************************************)
(* School Monitoring Admin API (src/main.py): the HTTP handlers as actions *)
(* over the document collections they read and write.                      *)
(*                                                                         *)
(* Conventions.  A Python str that the code inspects (the Authorization    *)
(* header, path identifiers, the name query, person names) is a sequence   *)
(* of one-character strings; a str the code only compares or copies is a   *)
(* TLA+ string.  Optional[T] is a sequence of length at most one: None is  *)
(* <<>> and a present value x is <<x>>.  A collection is the sequence of   *)
(* its documents in insertion order.  Timestamps (created_at, updated_at)  *)
(* are left out: no handler reads them.                                    *)
(***************************************************************************)
EXTENDS Integers, Sequences, FiniteSets, TLC

VARIABLES
    dbAvail,        \* database.db is not None
    admin,          \* db["admin"]
    token,          \* db["token"]
    camera,         \* db["camera"]
    classroom,      \* db["classroom"]
    student,        \* db["student"]
    teacher,        \* db["teacher"]
    behaviorevent,  \* db["behaviorevent"]
    notification,   \* db["notification"]
    nextOid,        \* number of ObjectIds generated so far
    nextTok,        \* number of uuid4 tokens generated so far
    resp            \* the last request and the response it got

vars == <<dbAvail, admin, token, camera, classroom, student, teacher,
          behaviorevent, notification, nextOid, nextTok, resp>>

collections == <<token, admin, camera, classroom, student, teacher,
                 behaviorevent, notification>>

----------------------------------------------------------------------------
(* Bounds of the exploration *)

\* successful logins in one run
MaxLogins == 2
\* documents created by add_camera and add_classroom in one run
MaxInserts == 1
\* runs of the seed endpoint in one run
MaxSeeds == 1
\* behavior events in the collection of the report specification
MaxEvents == 3

----------------------------------------------------------------------------
(* Strings *)

None == <<>>
Some(x) == <<x>>

Upper == <<"A","B","C","D","E","F","G","H","I","J","K","L","M",
           "N","O","P","Q","R","S","T","U","V","W","X","Y","Z">>
Lower == <<"a","b","c","d","e","f","g","h","i","j","k","l","m",
           "n","o","p","q","r","s","t","u","v","w","x","y","z">>
HexDigits == <<"0","1","2","3","4","5","6","7","8","9","a","b","c","d","e","f">>

\* str.lower() of one character
LowerOf(c) ==
    IF \E i \in 1..Len(Upper) : Upper[i] = c
    THEN Lower[CHOOSE i \in 1..Len(Upper) : Upper[i] = c]
    ELSE c

IsHex(c) == \E i \in 1..Len(HexDigits) : HexDigits[i] = LowerOf(c)
HexVal(c) == (CHOOSE i \in 1..Len(HexDigits) : HexDigits[i] = LowerOf(c)) - 1

\* s.startswith(p)
StartsWith(s, p) == Len(s) >= Len(p) /\ SubSeq(s, 1, Len(p)) = p

\* s.split(" ", 1)[1], for s holding a space
AfterFirstSpace(s) ==
    LET i == CHOOSE k \in 1..Len(s) :
                 s[k] = " " /\ \A j \in 1..(k - 1) : s[j] # " "
    IN SubSeq(s, i + 1, Len(s))

\* the first n elements of s (cursor.limit(n))
Take(s, n) == SubSeq(s, 1, IF Len(s) < n THEN Len(s) ELSE n)

\* n in hexadecimal, len digits wide
HexOf(n, len) ==
    [i \in 1..len |->
        IF i = len THEN HexDigits[(n % 16) + 1]
        ELSE IF i = len - 1 THEN HexDigits[((n \div 16) % 16) + 1]
        ELSE "0"]

----------------------------------------------------------------------------
(* bson.ObjectId: 12 bytes, written as 24 hexadecimal digits *)

OidLen == 24
InvalidId == <<>>

ObjectId_any_length(s) ==
    IF s # <<>> /\ \A i \in 1..Len(s) : IsHex(s[i])
    THEN [i \in 1..OidLen |-> IF i <= Len(s) THEN HexVal(s[i]) ELSE 0]
    ELSE InvalidId

\* ObjectId(s): the 24 nibbles of s, or InvalidId (the code's except branch)
ObjectId(s) ==
    IF Len(s) = OidLen /\ \A i \in 1..Len(s) : IsHex(s[i])
    THEN [i \in 1..OidLen |-> HexVal(s[i])]
    ELSE InvalidId

\* str(oid): lower-case hexadecimal
StrOid(o) == [i \in 1..OidLen |-> HexDigits[o[i] + 1]]

\* the n-th identifier the driver generates on insert_one
NewOid(n) ==
    [i \in 1..OidLen |->
        IF i = OidLen THEN n % 16
        ELSE IF i = OidLen - 1 THEN (n \div 16) % 16
        ELSE 0]

----------------------------------------------------------------------------
(* Collection access (pymongo) *)

Matching(coll, P(_)) == SelectSeq(coll, P)

\* coll.find_one(filter): the first matching document, or None
find_one(coll, P(_)) ==
    LET m == Matching(coll, P) IN IF m = <<>> THEN None ELSE Some(m[1])

\* coll.delete_one(filter): the collection without its first matching document
delete_one(coll, P(_)) ==
    IF \E i \in 1..Len(coll) : P(coll[i])
    THEN LET i == CHOOSE k \in 1..Len(coll) :
                      P(coll[k]) /\ \A j \in 1..(k - 1) : ~P(coll[j])
         IN SubSeq(coll, 1, i - 1) \o SubSeq(coll, i + 1, Len(coll))
    ELSE coll

deleted_count(coll, P(_)) == IF \E i \in 1..Len(coll) : P(coll[i]) THEN 1 ELSE 0

----------------------------------------------------------------------------
(* Responses *)

HTTPException(status_code, detail) ==
    [status |-> status_code, body |-> [detail |-> detail]]

\* a handler that returns: 200 with the returned value as body
Return(value) == [status |-> 200, body |-> value]

\* an exception no handler catches: the framework answers 500
ServerError == [status |-> 500, body |-> [detail |-> "Internal Server Error"]]

----------------------------------------------------------------------------
(* Auth helpers *)

\* hashlib.sha256(password): deterministic, and distinct passwords of the
\* model get distinct digests
hash_password(password) == <<"sha256", password>>

get_admin_by_email(email) ==
    IF ~dbAvail THEN None
    ELSE find_one(admin, LAMBDA d : d.email = email)

DefaultAdmin(oid) ==
    [id |-> oid, email |-> "admin@school.local", name |-> "Administrator",
     password_hash |-> hash_password("admin123"), is_active |-> TRUE]

\* the admin collection after ensure_default_admin, from collection coll
ensure_default_admin(coll, oid) ==
    IF find_one(coll, LAMBDA d : d.email = "admin@school.local") = None
    THEN Append(coll, DefaultAdmin(oid))
    ELSE coll

BearerPrefix == <<"B","e","a","r","e","r"," ">>

\* the dependency of every protected route: the administrator of the
\* bearer token, or the 401 it raises
get_current_admin_invalid_admin_ok(authorization) ==
    IF authorization = None \/ authorization[1] = <<>>
       \/ ~StartsWith(authorization[1], BearerPrefix)
    THEN HTTPException(401, "Unauthorized")
    ELSE LET tok == AfterFirstSpace(authorization[1])
             doc == IF dbAvail
                    THEN find_one(token, LAMBDA d : d.token = tok)
                    ELSE None
         IN  IF doc = None THEN HTTPException(401, "Invalid token")
             ELSE LET a == find_one(admin, LAMBDA d : d.id = doc[1].admin_id)
                  IN  IF a = None THEN Return(Some(admin[1])) ELSE Return(a)

get_current_admin_any_bearer(authorization) ==
    IF authorization = None \/ authorization[1] = <<>>
       \/ ~StartsWith(authorization[1], BearerPrefix)
    THEN HTTPException(401, "Unauthorized")
    ELSE IF ~dbAvail THEN HTTPException(401, "Invalid token")
    ELSE Return(Some(admin[1]))

get_current_admin(authorization) ==
    IF authorization = None \/ authorization[1] = <<>>
       \/ ~StartsWith(authorization[1], BearerPrefix)
    THEN HTTPException(401, "Unauthorized")
    ELSE LET tok == AfterFirstSpace(authorization[1])
             doc == IF dbAvail
                    THEN find_one(token, LAMBDA d : d.token = tok)
                    ELSE None
         IN  IF doc = None THEN HTTPException(401, "Invalid token")
             ELSE LET a == find_one(admin, LAMBDA d : d.id = doc[1].admin_id)
                  IN  IF a = None THEN HTTPException(401, "Invalid admin")
                      ELSE Return(a)

\* Depends(get_current_admin): the handler runs only when the dependency
\* returns, and gets the administrator it returned
Depends(authorization, handler(_)) ==
    LET a == get_current_admin(authorization)
    IN  IF a.status # 200 THEN a ELSE handler(a.body[1])

\* uuid.uuid4().hex: 32 hexadecimal digits, never the same twice
TokLen == 32
uuid4hex(n) == HexOf(n, TokLen)

----------------------------------------------------------------------------
(* Session routes.  A handler is the response it gives together with the   *)
(* new value of every collection it writes.                                *)

login_drops_sessions(payload) ==
    IF ~dbAvail THEN HTTPException(500, "Database not available")
    ELSE LET a == get_admin_by_email(payload.email)
         IN  IF a = None \/ a[1].password_hash # hash_password(payload.password)
             THEN HTTPException(401, "Invalid credentials")
             ELSE [status |-> 200,
                   body |-> [token |-> uuid4hex(nextTok), name |-> a[1].name,
                             email |-> a[1].email],
                   token |-> Append(SelectSeq(token,
                                        LAMBDA d : d.admin_id # a[1].id),
                                    [token |-> uuid4hex(nextTok),
                                     admin_id |-> a[1].id]),
                   nextTok |-> nextTok + 1]

login(payload) ==
    IF ~dbAvail THEN HTTPException(500, "Database not available")
    ELSE LET a == get_admin_by_email(payload.email)
         IN  IF a = None \/ a[1].password_hash # hash_password(payload.password)
             THEN HTTPException(401, "Invalid credentials")
             ELSE [status |-> 200,
                   body |-> [token |-> uuid4hex(nextTok), name |-> a[1].name,
                             email |-> a[1].email],
                   token |-> Append(token, [token |-> uuid4hex(nextTok),
                                            admin_id |-> a[1].id]),
                   nextTok |-> nextTok + 1]

logout_keeps_token(adm, authorization) ==
    Return([success |-> TRUE])

logout(adm, authorization) ==
    IF authorization # None /\ authorization[1] # <<>>
       /\ StartsWith(authorization[1], BearerPrefix) /\ dbAvail
    THEN [status |-> 200, body |-> [success |-> TRUE],
          token |-> delete_one(token,
                       LAMBDA d : d.token = AfterFirstSpace(authorization[1]))]
    ELSE Return([success |-> TRUE])

me(adm) == Return([email |-> adm.email, name |-> adm.name])

root == Return([status |-> "ok", app |-> "School Monitoring Admin API"])

test_database ==
    Return([backend |-> "Running",
            connection_status |-> IF dbAvail THEN "Connected" ELSE "Not Connected"])

----------------------------------------------------------------------------
(* database.py: create_document and get_documents *)

\* _id as the API exchanges it: it["_id"] = str(it["_id"])
Serialize(doc) == [doc EXCEPT !.id = StrOid(doc.id)]
SerializeAll(docs) == [i \in 1..Len(docs) |-> Serialize(docs[i])]

\* the collection after create_document(collection, data), whose result is
\* str(inserted_id)
create_document(coll, data) == Append(coll, data @@ [id |-> NewOid(nextOid)])

\* get_documents(collection, {}, limit): every document, or the first limit
get_documents(coll, limit) == IF limit = None THEN coll ELSE Take(coll, limit[1])

----------------------------------------------------------------------------
(* Dashboard and notifications *)

RECURSIVE SumSeq(_)
SumSeq(s) == IF s = <<>> THEN 0 ELSE Head(s) + SumSeq(Tail(s))

\* {"$avg": ...}: a mean as the pair of its sum and its count
Mean(scores) == [sum |-> SumSeq(scores), n |-> Len(scores)]

ScoresOf(events) ==
    LET scored == SelectSeq(events, LAMBDA e : e.score # None)
    IN  [i \in 1..Len(scored) |-> scored[i].score[1]]

dashboard_stats(adm) ==
    IF ~dbAvail THEN HTTPException(500, "Database not available")
    ELSE LET scored == SelectSeq(behaviorevent, LAMBDA e : e.score # None)
             groups == {scored[i].event_type : i \in 1..Len(scored)}
         IN  Return([counts |->
                       [classrooms |-> Len(classroom),
                        students |-> Len(student),
                        teachers |-> Len(teacher),
                        cameras |-> Len(SelectSeq(camera, LAMBDA c : c.is_active)),
                        events_today |-> Len(behaviorevent)],
                     engagementSummary |->
                       {[id |-> g,
                         avgScore |-> Mean(ScoresOf(SelectSeq(scored,
                                          LAMBDA e : e.event_type = g)))]
                        : g \in groups}])

NotificationLimit == 50

list_notifications(adm) ==
    IF ~dbAvail THEN ServerError
    ELSE Return(SerializeAll(get_documents(notification, Some(NotificationLimit))))

----------------------------------------------------------------------------
(* Cameras and classrooms *)

get_cameras(adm) ==
    IF ~dbAvail THEN ServerError
    ELSE Return(SerializeAll(get_documents(camera, None)))

add_camera(payload, adm) ==
    IF ~dbAvail THEN ServerError
    ELSE [status |-> 200, body |-> [id |-> StrOid(NewOid(nextOid))],
          camera |-> create_document(camera, payload),
          nextOid |-> nextOid + 1]

delete_camera_raises(camera_id, adm) ==
    LET oid == ObjectId(camera_id)
    IN  IF oid = InvalidId THEN HTTPException(400, "Invalid camera id")
        ELSE IF ~dbAvail THEN Return([deleted |-> 0])
        ELSE [status |-> 200,
              body |-> [deleted |-> deleted_count(camera, LAMBDA d : d.id = oid)],
              camera |-> delete_one(camera, LAMBDA d : d.id = oid)]

delete_camera(camera_id, adm) ==
    LET oid == ObjectId(camera_id)
    IN  IF oid = InvalidId \/ ~dbAvail THEN Return([deleted |-> 0])
        ELSE [status |-> 200,
              body |-> [deleted |-> deleted_count(camera, LAMBDA d : d.id = oid)],
              camera |-> delete_one(camera, LAMBDA d : d.id = oid)]

get_classrooms(adm) ==
    IF ~dbAvail THEN ServerError
    ELSE Return(SerializeAll(get_documents(classroom, None)))

add_classroom(payload, adm) ==
    IF ~dbAvail THEN ServerError
    ELSE [status |-> 200, body |-> [id |-> StrOid(NewOid(nextOid))],
          classroom |-> create_document(classroom, payload),
          nextOid |-> nextOid + 1]

update_one_timetable_all(coll, oid, timetable) ==
    [i \in 1..Len(coll) |-> [coll[i] EXCEPT !.timetable = Some(timetable)]]

\* coll.update_one({"_id": oid}, {"$set": {"timetable": timetable}})
update_one_timetable(coll, oid, timetable) ==
    IF \E i \in 1..Len(coll) : coll[i].id = oid
    THEN LET i == CHOOSE k \in 1..Len(coll) :
                      coll[k].id = oid /\ \A j \in 1..(k - 1) : coll[j].id # oid
         IN  [coll EXCEPT ![i].timetable = Some(timetable)]
    ELSE coll

update_timetable(classroom_id, timetable, adm) ==
    LET oid == ObjectId(classroom_id)
    IN  IF oid = InvalidId THEN HTTPException(400, "Invalid classroom id")
        ELSE IF ~dbAvail THEN ServerError
        ELSE [status |-> 200, body |-> [success |-> TRUE],
              classroom |-> update_one_timetable(classroom, oid, timetable)]

----------------------------------------------------------------------------
(* Students, teachers and reports *)

RECURSIVE SplitWs(_, _, _)
SplitWs(s, acc, cur) ==
    IF s = <<>> THEN (IF cur = <<>> THEN acc ELSE Append(acc, cur))
    ELSE IF Head(s) = " "
         THEN SplitWs(Tail(s), IF cur = <<>> THEN acc ELSE Append(acc, cur), <<>>)
         ELSE SplitWs(Tail(s), acc, Append(cur, Head(s)))

\* name.strip().split(): the maximal runs of non-blank characters
split(s) == SplitWs(s, <<>>, <<>>)

\* {"$regex": pattern, "$options": "i"} on the string s: the pattern is
\* found somewhere in s, letters compared without case; in a pattern "."
\* stands for any one character and every other character of the model's
\* alphabet for itself
RegexSearch(pattern, s) ==
    \E i \in 0..(Len(s) - Len(pattern)) :
        \A j \in 1..Len(pattern) :
            pattern[j] = "." \/ LowerOf(pattern[j]) = LowerOf(s[i + j])

\* the name part of the query the search handlers build from parts
NameQuery(parts, d) ==
    IF Len(parts) = 1
    THEN RegexSearch(parts[1], d.first_name) \/ RegexSearch(parts[1], d.last_name)
    ELSE RegexSearch(parts[1], d.first_name)
         /\ RegexSearch(parts[Len(parts)], d.last_name)

SearchLimit == 50

search_students(name, classroom_id, adm) ==
    LET named == name # None /\ name[1] # <<>>
        parts == IF named THEN split(name[1]) ELSE <<>>
        query(d) == /\ named => NameQuery(parts, d)
                    /\ (classroom_id # None /\ classroom_id[1] # <<>>)
                           => d.classroom_id = classroom_id[1]
    IN  IF named /\ parts = <<>> THEN ServerError
        ELSE IF ~dbAvail THEN Return(<<>>)
        ELSE Return(SerializeAll(Take(SelectSeq(student, query), SearchLimit)))

list_teachers(name, adm) ==
    LET named == name # None /\ name[1] # <<>>
        parts == IF named THEN split(name[1]) ELSE <<>>
        query(d) == named => NameQuery(parts, d)
    IN  IF named /\ parts = <<>> THEN ServerError
        ELSE IF ~dbAvail THEN Return(<<>>)
        ELSE Return(SerializeAll(Take(SelectSeq(teacher, query), SearchLimit)))

avg_score_truthy(events) ==
    IF Len(events) # 0
    THEN LET kept == SelectSeq(events,
                         LAMBDA e : e.score # None /\ e.score[1] # 0)
             scores == [i \in 1..Len(kept) |-> kept[i].score[1]]
         IN  IF scores # <<>> THEN Some(Mean(scores)) ELSE None
    ELSE None

\* avg_score of the report handlers
avg_score(events) ==
    IF Len(events) # 0
    THEN LET scores == ScoresOf(events)
         IN  IF scores # <<>> THEN Some(Mean(scores)) ELSE None
    ELSE None

event_type_of(e) == IF e.event_type = None THEN "unknown" ELSE e.event_type[1]

RECURSIVE Tally(_, _)
Tally(events, acc) ==
    IF events = <<>> THEN acc
    ELSE LET et == event_type_of(Head(events))
         IN  Tally(Tail(events),
                   IF et \in DOMAIN acc THEN [acc EXCEPT ![et] = @ + 1]
                   ELSE acc @@ (et :> 1))

\* type_breakdown of the report handlers: a dict, as a function of its keys
type_breakdown(events) == Tally(events, <<>>)

student_report(student_id, adm) ==
    LET oid == ObjectId(student_id)
    IN  IF oid = InvalidId THEN HTTPException(400, "Invalid student id")
        ELSE IF ~dbAvail THEN ServerError
        ELSE LET st == find_one(student, LAMBDA d : d.id = oid)
                 events == SelectSeq(behaviorevent,
                               LAMBDA e : e.student_id = Some(student_id))
             IN  IF st = None THEN HTTPException(404, "Student not found")
                 ELSE Return([student |-> Serialize(st[1]),
                              totalEvents |-> Len(events),
                              averageScore |-> avg_score(events),
                              breakdown |-> type_breakdown(events),
                              events |-> events])

teacher_performance(teacher_id, adm) ==
    LET oid == ObjectId(teacher_id)
    IN  IF oid = InvalidId THEN HTTPException(400, "Invalid teacher id")
        ELSE IF ~dbAvail THEN ServerError
        ELSE LET t == find_one(teacher, LAMBDA d : d.id = oid)
                 events == SelectSeq(behaviorevent,
                               LAMBDA e : e.teacher_id = Some(teacher_id))
             IN  IF t = None THEN HTTPException(404, "Teacher not found")
                 ELSE Return([teacher |-> Serialize(t[1]),
                              totalEvents |-> Len(events),
                              averageScore |-> avg_score(events),
                              breakdown |-> type_breakdown(events),
                              events |-> events])

----------------------------------------------------------------------------
(* Demo seeding *)

Str_Student == <<"S","t","u","d","e","n","t">>
Str_Demo == <<"D","e","m","o">>
Str_Teacher == <<"T","e","a","c","h","e","r">>
Digits == <<"0","1","2","3","4","5","6","7","8","9">>

\* str(i) for 0 <= i < 100
Decimal(i) ==
    IF i < 10 THEN <<Digits[i + 1]>>
    ELSE <<Digits[(i \div 10) + 1], Digits[(i % 10) + 1]>>

SeedClassNames == << <<"1","0","A">>, <<"1","0","B">>, <<"1","1","A">> >>
SeedTimetable == [Mon |-> <<"Math", "English", "Physics">>,
                  Tue |-> <<"Chem", "History", "Sports">>]
SeedSubjects == << <<"M","a","t","h">>, <<"E","n","g","l","i","s","h">>,
                   <<"P","h","y","s","i","c","s">>, <<"C","h","e","m">>,
                   <<"H","i","s","t","o","r","y">>, <<"S","p","o","r","t","s">> >>
SeedCameraNames == <<"Class 1 Cam", "Class 2 Cam", "Class 3 Cam">>
SeedPlaceholders == <<"placeholder-0", "placeholder-1", "placeholder-2">>
SeedNotifications ==
    << [title |-> "High Engagement", level |-> "info"],
       [title |-> "Distraction Spike", level |-> "warning"] >>

seed(adm) ==
    IF ~dbAvail THEN HTTPException(500, "Database not available")
    ELSE
    LET nCls == Len(SeedClassNames)
        nStu == 15
        nTea == Len(SeedSubjects)
        cls_ids == [k \in 1..nCls |-> StrOid(NewOid(nextOid + k - 1))]
        stu0 == nextOid + nCls
        tea0 == stu0 + nStu
        cam0 == tea0 + nTea
        not0 == cam0 + nCls
    IN  [status |-> 200, body |-> [success |-> TRUE],
         classroom |-> classroom \o
            [k \in 1..nCls |->
                [id |-> NewOid(nextOid + k - 1), name |-> SeedClassNames[k],
                 grade |-> Some(SubSeq(SeedClassNames[k], 1, 2)),
                 timetable |-> Some(SeedTimetable)]],
         student |-> student \o
            [i \in 1..nStu |->
                [id |-> NewOid(stu0 + i - 1),
                 first_name |-> Str_Student \o Decimal(i),
                 last_name |-> Str_Demo,
                 classroom_id |-> cls_ids[(i % nCls) + 1]]],
         teacher |-> teacher \o
            [k \in 1..nTea |->
                [id |-> NewOid(tea0 + k - 1), first_name |-> SeedSubjects[k],
                 last_name |-> Str_Teacher, subject |-> Some(SeedSubjects[k])]],
         camera |-> camera \o
            [k \in 1..nCls |->
                [id |-> NewOid(cam0 + k - 1), classroom_id |-> cls_ids[k],
                 name |-> SeedCameraNames[k],
                 stream_url |-> SeedPlaceholders[((k - 1) % Len(SeedPlaceholders)) + 1],
                 is_active |-> TRUE]],
         notification |-> notification \o
            [k \in 1..Len(SeedNotifications) |->
                SeedNotifications[k] @@ [id |-> NewOid(not0 + k - 1)]],
         nextOid |-> not0 + Len(SeedNotifications)]

----------------------------------------------------------------------------
(* The state at startup *)

\* identifiers of the documents the storage holds before the process starts
HeadAdminId == NewOid(1)
CameraId == NewOid(10)
ClassroomId == NewOid(11)
StudentId == NewOid(12)
TeacherId == NewOid(13)
\* the administrator of a token whose administrator record is gone
GoneAdminId == NewOid(255)
\* identifiers the driver generates start here
FirstOid == 16

Str_John == <<"J","o","h","n">>
Str_Smith == <<"S","m","i","t","h">>
Str_Ann == <<"A","n","n">>
Str_Jones == <<"J","o","n","e","s">>
Str_5C == <<"5","C">>

StoredAdmins ==
    << [id |-> HeadAdminId, email |-> "head@school.local", name |-> "Head",
        password_hash |-> hash_password("s3cret"), is_active |-> TRUE] >>
\* tokens issued by earlier runs of the process: one whose administrator
\* record is gone, one of the stored administrator
GoneToken == uuid4hex(201)
LiveToken == uuid4hex(200)
StoredTokens == << [token |-> GoneToken, admin_id |-> GoneAdminId] >>
LiveTokens == Append(StoredTokens, [token |-> LiveToken, admin_id |-> HeadAdminId])
StoredCameras ==
    << [id |-> CameraId, classroom_id |-> StrOid(ClassroomId),
        name |-> "Front Cam", stream_url |-> "rtsp://front", is_active |-> TRUE] >>
StoredClassrooms ==
    << [id |-> ClassroomId, name |-> Str_5C, grade |-> None, timetable |-> None] >>
StoredStudents ==
    << [id |-> StudentId, first_name |-> Str_John, last_name |-> Str_Smith,
        classroom_id |-> StrOid(ClassroomId)] >>
StoredTeachers ==
    << [id |-> TeacherId, first_name |-> Str_Ann, last_name |-> Str_Jones,
        subject |-> None] >>
StoredEvents ==
    << [id |-> NewOid(14), student_id |-> Some(StrOid(StudentId)),
        teacher_id |-> Some(StrOid(TeacherId)),
        event_type |-> Some("engagement"), score |-> Some(2)] >>

NoResponse ==
    [route |-> "", authorization |-> None, args |-> None, status |-> 0,
     body |-> None]

\* startup_event on the stored collections; with no storage handle nothing
\* is read or written
Startup(tokens, events, students, teachers) ==
    /\ dbAvail \in BOOLEAN
    /\ admin = IF dbAvail
               THEN ensure_default_admin(StoredAdmins, NewOid(FirstOid - 1))
               ELSE <<>>
    /\ token = IF dbAvail THEN tokens ELSE <<>>
    /\ camera = IF dbAvail THEN StoredCameras ELSE <<>>
    /\ classroom = IF dbAvail THEN StoredClassrooms ELSE <<>>
    /\ student = IF dbAvail THEN students ELSE <<>>
    /\ teacher = IF dbAvail THEN teachers ELSE <<>>
    /\ behaviorevent = IF dbAvail THEN events ELSE <<>>
    /\ notification = <<>>
    /\ nextOid = FirstOid
    /\ nextTok = 0
    /\ resp = NoResponse

Init == Startup(StoredTokens, StoredEvents, StoredStudents, StoredTeachers)

----------------------------------------------------------------------------
(* Requests *)

\* a request handled, once the response to the one before it is sent: its
\* response, and the collections the handler wrote
Apply(route, authorization, args, r) ==
    /\ resp = NoResponse
    /\ resp' = [route |-> route, authorization |-> authorization,
                args |-> args, status |-> r.status, body |-> r.body]
    /\ token' = IF "token" \in DOMAIN r THEN r.token ELSE token
    /\ camera' = IF "camera" \in DOMAIN r THEN r.camera ELSE camera
    /\ classroom' = IF "classroom" \in DOMAIN r THEN r.classroom ELSE classroom
    /\ student' = IF "student" \in DOMAIN r THEN r.student ELSE student
    /\ teacher' = IF "teacher" \in DOMAIN r THEN r.teacher ELSE teacher
    /\ notification' = IF "notification" \in DOMAIN r THEN r.notification
                       ELSE notification
    /\ nextOid' = IF "nextOid" \in DOMAIN r THEN r.nextOid ELSE nextOid
    /\ nextTok' = IF "nextTok" \in DOMAIN r THEN r.nextTok ELSE nextTok
    /\ UNCHANGED <<dbAvail, admin, behaviorevent>>

SeedSize == 2 * Len(SeedClassNames) + 15 + Len(SeedSubjects) + Len(SeedNotifications)
SeedsDone == Len(notification) \div Len(SeedNotifications)
InsertsDone == nextOid - FirstOid - SeedsDone * SeedSize

Bearer(tok) == Some(BearerPrefix \o tok)
\* no header; a live token under another scheme; the token of the missing
\* administrator; every token a login can issue
Headers ==
    {None, Some(<<"T","o","k","e","n"," ">> \o uuid4hex(0)), Bearer(GoneToken)}
    \cup {Bearer(uuid4hex(k)) : k \in 0..(MaxLogins - 1)}

Credentials ==
    [email : {"admin@school.local", "head@school.local", "nobody@school.local"},
     password : {"admin123", "s3cret"}]

Login ==
    /\ resp = NoResponse
    /\ \E payload \in Credentials :
        LET r == login(payload)
        IN  /\ r.status = 200 => nextTok < MaxLogins
            /\ Apply("login", None, payload, r)

Logout(H) ==
    /\ resp = NoResponse
    /\ \E h \in H :
        Apply("logout", h, None, Depends(h, LAMBDA a : logout(a, h)))

Me(H) ==
    /\ resp = NoResponse
    /\ \E h \in H : Apply("me", h, None, Depends(h, me))

DashboardStats(H) ==
    /\ resp = NoResponse
    /\ \E h \in H : Apply("dashboard_stats", h, None, Depends(h, dashboard_stats))

ListNotifications(H) ==
    /\ resp = NoResponse
    /\ \E h \in H :
        Apply("list_notifications", h, None, Depends(h, list_notifications))

GetCameras(H) ==
    /\ resp = NoResponse
    /\ \E h \in H : Apply("get_cameras", h, None, Depends(h, get_cameras))

AddCamera(H, P) ==
    /\ resp = NoResponse
    /\ \E h \in H, payload \in P :
        LET r == Depends(h, LAMBDA a : add_camera(payload, a))
        IN  /\ r.status = 200 => InsertsDone < MaxInserts
            /\ Apply("add_camera", h, payload, r)

DeleteCamera(H, Ids) ==
    /\ resp = NoResponse
    /\ \E h \in H, camera_id \in Ids :
        Apply("delete_camera", h, [camera_id |-> camera_id],
              Depends(h, LAMBDA a : delete_camera(camera_id, a)))

GetClassrooms(H) ==
    /\ resp = NoResponse
    /\ \E h \in H : Apply("get_classrooms", h, None, Depends(h, get_classrooms))

AddClassroom(H, P) ==
    /\ resp = NoResponse
    /\ \E h \in H, payload \in P :
        LET r == Depends(h, LAMBDA a : add_classroom(payload, a))
        IN  /\ r.status = 200 => InsertsDone < MaxInserts
            /\ Apply("add_classroom", h, payload, r)

UpdateTimetable(H, Ids, T) ==
    /\ resp = NoResponse
    /\ \E h \in H, classroom_id \in Ids, timetable \in T :
        Apply("update_timetable", h,
              [classroom_id |-> classroom_id, timetable |-> timetable],
              Depends(h, LAMBDA a : update_timetable(classroom_id, timetable, a)))

SearchStudents(H, Names, Ids) ==
    /\ resp = NoResponse
    /\ \E h \in H, name \in Names, classroom_id \in Ids :
        Apply("search_students", h,
              [name |-> name, classroom_id |-> classroom_id],
              Depends(h, LAMBDA a : search_students(name, classroom_id, a)))

ListTeachers(H, Names) ==
    /\ resp = NoResponse
    /\ \E h \in H, name \in Names :
        Apply("list_teachers", h, [name |-> name],
              Depends(h, LAMBDA a : list_teachers(name, a)))

StudentReport(H, Ids) ==
    /\ resp = NoResponse
    /\ \E h \in H, student_id \in Ids :
        Apply("student_report", h, [student_id |-> student_id],
              Depends(h, LAMBDA a : student_report(student_id, a)))

TeacherPerformance(H, Ids) ==
    /\ resp = NoResponse
    /\ \E h \in H, teacher_id \in Ids :
        Apply("teacher_performance", h, [teacher_id |-> teacher_id],
              Depends(h, LAMBDA a : teacher_performance(teacher_id, a)))

Seed(H) ==
    /\ resp = NoResponse
    /\ \E h \in H :
        LET r == Depends(h, seed)
        IN  /\ r.status = 200 => SeedsDone < MaxSeeds
            /\ Apply("seed", h, None, r)

\* the response leaves the server, which takes the next request
SendResponse ==
    /\ resp # NoResponse
    /\ resp' = NoResponse
    /\ UNCHANGED <<dbAvail, admin, token, camera, classroom, student, teacher,
                   behaviorevent, notification, nextOid, nextTok>>

Root == Apply("root", None, None, root)

TestDatabase == Apply("test_database", None, None, test_database)

----------------------------------------------------------------------------
(* Inputs *)

UpperOf(c) ==
    IF \E i \in 1..Len(Lower) : Lower[i] = c
    THEN Upper[CHOOSE i \in 1..Len(Lower) : Lower[i] = c]
    ELSE c
ToUpper(s) == [i \in 1..Len(s) |-> UpperOf(s[i])]

\* identifiers that are no 24-digit hexadecimal string: too short, too
\* long, and of the right length with a letter that is no digit
Malformed ==
    {<<"1","2","a">>, HexOf(10, OidLen + 1), [i \in 1..OidLen |-> "g"]}

CameraPayloads ==
    {[classroom_id |-> StrOid(ClassroomId), name |-> "Back Cam",
      stream_url |-> "rtsp://back", is_active |-> FALSE]}
ClassroomPayloads ==
    {[name |-> <<"6","A">>, grade |-> Some(<<"6">>), timetable |-> None]}
Timetables ==
    {[Mon |-> <<"Art">>], [Mon |-> <<"Math", "Art">>, Fri |-> <<>>]}

\* the session specification: every route, one or two inputs each
Next ==
    \/ Login
    \/ Logout(Headers)
    \/ Me(Headers)
    \/ DashboardStats(Headers)
    \/ ListNotifications(Headers)
    \/ GetCameras(Headers)
    \/ AddCamera(Headers, CameraPayloads)
    \/ DeleteCamera(Headers, {StrOid(CameraId)})
    \/ GetClassrooms(Headers)
    \/ AddClassroom(Headers, ClassroomPayloads)
    \/ UpdateTimetable(Headers, {StrOid(ClassroomId)}, {[Mon |-> <<"Art">>]})
    \/ SearchStudents(Headers, {Some(Str_John)}, {None})
    \/ ListTeachers(Headers, {None})
    \/ StudentReport(Headers, {StrOid(StudentId)})
    \/ TeacherPerformance(Headers, {StrOid(TeacherId)})
    \/ Seed(Headers)
    \/ Root
    \/ TestDatabase
    \/ SendResponse

Spec == Init /\ [][Next]_vars

\* the entity specification: an administrator with a live token works on
\* cameras, classrooms and reports, with well-formed and malformed ids
EntityHeaders == {None, Bearer(LiveToken)}
EntityIds ==
    {StrOid(CameraId), ToUpper(StrOid(CameraId)), ToUpper(StrOid(ClassroomId)),
     ToUpper(StrOid(StudentId)), StrOid(TeacherId),
     StrOid(NewOid(FirstOid)), StrOid(NewOid(254))}
    \cup Malformed

InitEntities ==
    /\ Startup(LiveTokens, StoredEvents, StoredStudents, StoredTeachers)
    /\ dbAvail

NextEntities ==
    \/ GetCameras(EntityHeaders)
    \/ AddCamera(EntityHeaders, CameraPayloads)
    \/ DeleteCamera(EntityHeaders, EntityIds)
    \/ GetClassrooms(EntityHeaders)
    \/ AddClassroom(EntityHeaders, ClassroomPayloads)
    \/ UpdateTimetable(EntityHeaders, EntityIds, Timetables)
    \/ StudentReport(EntityHeaders, EntityIds)
    \/ TeacherPerformance(EntityHeaders, EntityIds)
    \/ SendResponse

SpecEntities == InitEntities /\ [][NextEntities]_vars

----------------------------------------------------------------------------
(* The report specification: the report handlers on every content of the   *)
(* behavior-event collection up to MaxEvents events                        *)

\* an event of the stored student and teacher
OwnEvent(event_type, score) ==
    [student_id |-> Some(StrOid(StudentId)), teacher_id |-> Some(StrOid(TeacherId)),
     event_type |-> event_type, score |-> score]
EventKinds ==
    {OwnEvent(Some("engagement"), Some(2)), OwnEvent(Some("engagement"), None),
     OwnEvent(Some("distraction"), Some(6)), OwnEvent(None, Some(0)),
     OwnEvent(None, None),
     [student_id |-> Some(ToUpper(StrOid(StudentId))), teacher_id |-> None,
      event_type |-> Some("engagement"), score |-> Some(10)],
     [student_id |-> None, teacher_id |-> None,
      event_type |-> Some("tardiness"), score |-> Some(4)]}

EventLists == UNION {[1..n -> EventKinds] : n \in 0..MaxEvents}
WithIds(events) ==
    [i \in 1..Len(events) |-> events[i] @@ [id |-> NewOid(100 + i)]]

ReportIds ==
    {StrOid(StudentId), ToUpper(StrOid(StudentId)), StrOid(TeacherId),
     StrOid(NewOid(254)), <<"1","2","a">>}

InitReport ==
    \E events \in EventLists :
        /\ Startup(LiveTokens, WithIds(events), StoredStudents, StoredTeachers)
        /\ dbAvail

NextReport ==
    \/ StudentReport(EntityHeaders, ReportIds)
    \/ TeacherPerformance(EntityHeaders, ReportIds)
    \/ SendResponse

SpecReport == InitReport /\ [][NextReport]_vars

----------------------------------------------------------------------------
(* The search specification: the name search on small collections *)

Str_john == <<"j","o","h","n">>
Str_Johnson == <<"J","o","h","n","s","o","n">>
Person(k, first, last) ==
    [id |-> NewOid(k), first_name |-> first, last_name |-> last]
Persons ==
    {Person(12, Str_John, Str_Smith), Person(13, Str_Ann, Str_Johnson),
     Person(14, Str_Ann, Str_Jones)}
\* lists of distinct persons
PersonLists ==
    {ps \in UNION {[1..n -> Persons] : n \in 0..2} :
        \A i, j \in 1..Len(ps) : i # j => ps[i] # ps[j]}
AsStudents(ps) ==
    [i \in 1..Len(ps) |->
        ps[i] @@ [classroom_id |-> IF i = 1 THEN StrOid(ClassroomId)
                                   ELSE StrOid(NewOid(254))]]
AsTeachers(ps) == [i \in 1..Len(ps) |-> ps[i] @@ [subject |-> None]]

SearchNames ==
    {None, Some(<<>>), Some(<<" ">>), Some(Str_john), Some(Str_Smith),
     Some(Str_john \o <<" ">> \o Str_Smith),
     Some(<<" ">> \o Str_Ann \o <<" ", " ">> \o Str_john \o <<" ">>),
     Some(Str_Ann \o <<" ", "x", " ">> \o <<"o","n","e">>),
     Some(<<"J",".","h","n">>), Some(<<".">>)}
SearchClassrooms == {None, Some(<<>>), Some(StrOid(ClassroomId))}

InitSearch ==
    \E ps \in PersonLists :
        /\ Startup(LiveTokens, StoredEvents, AsStudents(ps), AsTeachers(ps))
        /\ dbAvail

NextSearch ==
    \/ SearchStudents(EntityHeaders, SearchNames, SearchClassrooms)
    \/ ListTeachers(EntityHeaders, SearchNames)
    \/ SendResponse

SpecSearch == InitSearch /\ [][NextSearch]_vars

----------------------------------------------------------------------------
(* Vocabulary of the properties *)

ProtectedRoutes ==
    {"logout", "me", "dashboard_stats", "list_notifications", "get_cameras",
     "add_camera", "delete_camera", "get_classrooms", "add_classroom",
     "update_timetable", "search_students", "list_teachers", "student_report",
     "teacher_performance", "seed"}

\* the token collection holds a record of token t
Held(t) == \E i \in 1..Len(token) : token[i].token = t

\* what follows the scheme in a header that starts with it
Presented(h) == SubSeq(h[1], Len(BearerPrefix) + 1, Len(h[1]))

\* the header is missing, of another scheme, of a token the collection does
\* not hold, or of a token whose administrator is no record
BadHeader(h) ==
    \/ h = None
    \/ ~StartsWith(h[1], BearerPrefix)
    \/ ~Held(Presented(h))
    \/ \E i \in 1..Len(token) :
           /\ token[i].token = Presented(h)
           /\ ~\E j \in 1..Len(admin) : admin[j].id = token[i].admin_id

Without(coll, P(_)) == SelectSeq(coll, LAMBDA d : ~P(d))

----------------------------------------------------------------------------
(* C1: the token a successful login returns is in the token collection; as *)
(* long as it is there, every protected request bearing it passes          *)
(* get_current_admin (is not answered 401) and nothing but a logout        *)
(* bearing that token removes it; that logout succeeds and removes it;     *)
(* once removed it never returns, and every protected request bearing it   *)
(* is answered 401.                                                        *)
C1_SessionLifetime ==
    [][\A k \in 0..(nextTok' - 1) :
          LET t == uuid4hex(k)
              bears == resp'.route \in ProtectedRoutes
                       /\ resp'.authorization = Bearer(t)
          IN  /\ k = nextTok =>
                    /\ resp'.route = "login" /\ resp'.status = 200
                    /\ resp'.body.token = t
                    /\ Held(t)'
              /\ (k < nextTok /\ Held(t)) =>
                    /\ bears => resp'.status # 401
                    /\ Held(t)' \/ (bears /\ resp'.route = "logout")
                    /\ (bears /\ resp'.route = "logout") =>
                           resp'.status = 200 /\ ~Held(t)'
              /\ (k < nextTok /\ ~Held(t)) =>
                    /\ ~Held(t)'
                    /\ bears => resp'.status = 401
      ]_vars

\* a token was issued, logged out and presented again, while the token of
\* a later login is live
C1_Witness ==
    /\ resp.route = "me" /\ resp.status = 401
    /\ resp.authorization = Bearer(uuid4hex(0))
    /\ nextTok = 2 /\ Held(uuid4hex(1))

(* C2: a request to a protected route whose header is missing, of another  *)
(* scheme, of a token absent from the token collection or of a token whose *)
(* administrator is no record is answered 401 and changes no collection;   *)
(* every route but login, / and /test is protected.                        *)
C2_RequiresToken ==
    [][/\ resp'.route \in ProtectedRoutes \cup {"login", "root", "test_database", ""}
       /\ (resp'.route \in ProtectedRoutes /\ BadHeader(resp'.authorization)) =>
              resp'.status = 401 /\ collections' = collections
      ]_vars

\* a camera delete bearing the token of the missing administrator: refused
C2_Witness ==
    /\ resp.route = "delete_camera" /\ resp.status = 401
    /\ resp.authorization = Bearer(GoneToken)
    /\ Held(GoneToken)

(* C3, as stated: a logout bearing a token whose record is absent (here a  *)
(* token that a login of this run issued, with the storage available)      *)
(* returns success and leaves the token collection unchanged.              *)
C3_LogoutOfAbsentTokenSucceeds ==
    [][(/\ dbAvail
        /\ resp'.route = "logout"
        /\ \E k \in 0..(nextTok - 1) : resp'.authorization = Bearer(uuid4hex(k))
        /\ ~Held(Presented(resp'.authorization))) =>
           resp'.status = 200 /\ token' = token
      ]_vars

(* C3, amended: a logout bearing a token of the collection whose           *)
(* administrator exists returns success and deletes that token's record;   *)
(* a logout bearing a token whose record is absent (a second logout with   *)
(* the same token) is answered 401 and leaves the token collection         *)
(* unchanged.                                                              *)
C3_LogoutDeletesOrRejects ==
    [][(/\ resp'.route = "logout"
        /\ resp'.authorization # None
        /\ StartsWith(resp'.authorization[1], BearerPrefix)) =>
           LET t == Presented(resp'.authorization)
           IN  /\ ~Held(t) => resp'.status = 401 /\ token' = token
               /\ (Held(t) /\ ~BadHeader(resp'.authorization)) =>
                      /\ resp'.status = 200
                      /\ resp'.body = [success |-> TRUE]
                      /\ token' = Without(token, LAMBDA d : d.token = t)
      ]_vars

\* the second logout with an issued token
C3_Witness ==
    /\ resp.route = "logout" /\ resp.status = 401
    /\ resp.authorization = Bearer(uuid4hex(0))
    /\ nextTok >= 1 /\ ~Held(uuid4hex(0))

(* C4, as stated: with no storage handle every storage-dependent endpoint  *)
(* answers 500, and GET / answers normally.                                *)
C4_NoStorageIs500 ==
    ~dbAvail =>
        /\ resp.route \in ProtectedRoutes \cup {"login"} => resp.status = 500
        /\ resp.route = "root" => resp.status = 200

(* C10: a successful logout removes the record of the presented token and  *)
(* no other; a successful login appends one record, of a token the         *)
(* collection did not hold, for the administrator of the email, and keeps  *)
(* every record there was; a failed login and every other operation leave  *)
(* the token collection as it was.                                         *)
C10_SessionsIsolated ==
    [][/\ (resp'.route = "logout" /\ resp'.status = 200) =>
              token' = Without(token,
                           LAMBDA d : d.token = Presented(resp'.authorization))
       /\ (resp'.route = "login" /\ resp'.status = 200) =>
              /\ Len(token') = Len(token) + 1
              /\ SubSeq(token', 1, Len(token)) = token
              /\ token'[Len(token')].token = resp'.body.token
              /\ ~Held(resp'.body.token)
              /\ \E j \in 1..Len(admin) :
                     /\ admin[j].email = resp'.args.email
                     /\ admin[j].id = token'[Len(token')].admin_id
       /\ (resp'.route = "login" /\ resp'.status # 200) => token' = token
       /\ resp'.route \notin {"login", "logout"} => token' = token
      ]_vars

\* a login has just succeeded for an administrator who already held a live
\* token: both sessions of that administrator are in the collection
C10_Witness ==
    /\ resp.route = "login" /\ resp.status = 200
    /\ \E i, j \in 1..Len(token) :
           i # j /\ token[i].admin_id = token[j].admin_id

----------------------------------------------------------------------------
(* Identifiers, as the properties read them *)

HexChars ==
    {"0","1","2","3","4","5","6","7","8","9",
     "a","b","c","d","e","f","A","B","C","D","E","F"}
WellFormedId(s) == Len(s) = OidLen /\ \A i \in 1..Len(s) : s[i] \in HexChars
ToLower(s) == [i \in 1..Len(s) |-> LowerOf(s[i])]
\* document d is the one the identifier string s names
Names(s, d) == StrOid(d.id) = ToLower(s)
Authenticated(h) == ~BadHeader(h)

(* C5: an authenticated request to the student report, the teacher report  *)
(* or the timetable update with an identifier that is not well-formed is   *)
(* answered 400 and changes no collection; a report for a well-formed      *)
(* identifier that names no student (teacher) is answered 404.             *)
C5_MalformedIdIs400 ==
    [][Authenticated(resp'.authorization) =>
          /\ resp'.route = "student_report" =>
                LET s == resp'.args.student_id
                IN  /\ ~WellFormedId(s) =>
                           resp'.status = 400 /\ collections' = collections
                    /\ (WellFormedId(s)
                        /\ ~\E i \in 1..Len(student) : Names(s, student[i])) =>
                           resp'.status = 404
          /\ resp'.route = "teacher_performance" =>
                LET s == resp'.args.teacher_id
                IN  /\ ~WellFormedId(s) =>
                           resp'.status = 400 /\ collections' = collections
                    /\ (WellFormedId(s)
                        /\ ~\E i \in 1..Len(teacher) : Names(s, teacher[i])) =>
                           resp'.status = 404
          /\ resp'.route = "update_timetable" =>
                (~WellFormedId(resp'.args.classroom_id) =>
                     resp'.status = 400 /\ collections' = collections)
      ]_vars

\* a student report asked with 24 characters that are no hexadecimal digits
C5_Witness ==
    /\ resp.route = "student_report" /\ resp.status = 400
    /\ resp.authorization = Bearer(LiveToken)
    /\ Len(resp.args.student_id) = OidLen

(* C6: an authenticated camera delete answers 200; with an identifier that *)
(* is not well-formed the deleted count is 0 and the camera collection is  *)
(* unchanged; with a well-formed one the collection loses exactly the      *)
(* cameras the identifier names, at most one, and the deleted count is     *)
(* their number.                                                           *)
C6_DeleteCamera ==
    [][(resp'.route = "delete_camera" /\ Authenticated(resp'.authorization)) =>
          LET s == resp'.args.camera_id
              named == {i \in 1..Len(camera) : Names(s, camera[i])}
          IN  /\ resp'.status = 200
              /\ ~WellFormedId(s) =>
                     resp'.body.deleted = 0 /\ camera' = camera
              /\ WellFormedId(s) =>
                     /\ Cardinality(named) <= 1
                     /\ resp'.body.deleted = Cardinality(named)
                     /\ camera' = Without(camera, LAMBDA d : Names(s, d))
      ]_vars

\* a delete with a malformed identifier, answered with a zero count
C6_Witness ==
    /\ resp.route = "delete_camera" /\ resp.status = 200
    /\ resp.args.camera_id \in Malformed
    /\ resp.body.deleted = 0

(* C8: add_classroom returns the identifier of the one record it appends;  *)
(* a successful timetable update sets the timetable of the record its      *)
(* identifier names to the given one and changes nothing else of any       *)
(* record; no other request changes a record of the classroom collection;  *)
(* and a fetch returns every record as it is, with its identifier as a     *)
(* string.  So the timetable of the last update on c is what every later   *)
(* fetch returns for c, with the name and grade c was created with.        *)
C8_TimetableRoundTrip ==
    [][/\ Len(classroom') >= Len(classroom)
       /\ (resp'.route = "update_timetable" /\ resp'.status = 200) =>
              classroom' =
                  [i \in 1..Len(classroom) |->
                      IF Names(resp'.args.classroom_id, classroom[i])
                      THEN [classroom[i] EXCEPT
                               !.timetable = Some(resp'.args.timetable)]
                      ELSE classroom[i]]
       /\ ~(resp'.route = "update_timetable" /\ resp'.status = 200) =>
              SubSeq(classroom', 1, Len(classroom)) = classroom
       /\ (resp'.route = "add_classroom" /\ resp'.status = 200) =>
              /\ Len(classroom') = Len(classroom) + 1
              /\ StrOid(classroom'[Len(classroom')].id) = resp'.body.id
              /\ ~\E i \in 1..Len(classroom) : StrOid(classroom[i].id) = resp'.body.id
              /\ classroom'[Len(classroom')].name = resp'.args.name
              /\ classroom'[Len(classroom')].grade = resp'.args.grade
       /\ (resp'.route = "get_classrooms" /\ resp'.status = 200) =>
              /\ Len(resp'.body) = Len(classroom)
              /\ \A i \in 1..Len(classroom) :
                     /\ resp'.body[i].id = StrOid(classroom[i].id)
                     /\ resp'.body[i].timetable = classroom[i].timetable
                     /\ resp'.body[i].name = classroom[i].name
                     /\ resp'.body[i].grade = classroom[i].grade
      ]_vars

\* the classroom created in this run, fetched after its timetable was
\* updated: the fetch carries the updated timetable and the created name
C8_Witness ==
    /\ resp.route = "get_classrooms" /\ resp.status = 200
    /\ \E i \in 1..Len(resp.body) :
           /\ resp.body[i].id = StrOid(NewOid(FirstOid))
           /\ resp.body[i].timetable = Some([Mon |-> <<"Math", "Art">>, Fri |-> <<>>])
           /\ resp.body[i].name = <<"6","A">>
           /\ resp.body[i].grade = Some(<<"6">>)

----------------------------------------------------------------------------
(* Reports, as the properties read them *)

\* the positions of the events whose reference field holds the string s
EventsOf(field, s) ==
    {i \in 1..Len(behaviorevent) : behaviorevent[i][field] = Some(s)}
Scored(I) == {i \in I : behaviorevent[i].score # None}
LabelOf(i) ==
    IF behaviorevent[i].event_type = None THEN "unknown"
    ELSE behaviorevent[i].event_type[1]

RECURSIVE ScoreTotal(_)
ScoreTotal(I) ==
    IF I = {} THEN 0
    ELSE LET i == CHOOSE j \in I : TRUE
         IN  behaviorevent[i].score[1] + ScoreTotal(I \ {i})

RECURSIVE CountTotal(_, _)
CountTotal(f, K) ==
    IF K = {} THEN 0
    ELSE LET k == CHOOSE j \in K : TRUE IN f[k] + CountTotal(f, K \ {k})

ReportIsRight(field, s, body) ==
    LET M == EventsOf(field, s)
    IN  /\ body.totalEvents = Cardinality(M)
        /\ IF Scored(M) = {} THEN body.averageScore = None
           ELSE /\ body.averageScore # None
                /\ body.averageScore[1].n > 0
                /\ body.averageScore[1].sum * Cardinality(Scored(M))
                       = ScoreTotal(Scored(M)) * body.averageScore[1].n
        /\ DOMAIN body.breakdown = {LabelOf(i) : i \in M}
        /\ \A l \in DOMAIN body.breakdown :
               body.breakdown[l] = Cardinality({i \in M : LabelOf(i) = l})
        /\ CountTotal(body.breakdown, DOMAIN body.breakdown) = body.totalEvents
        /\ M = {} => body.averageScore = None /\ DOMAIN body.breakdown = {}

----------------------------------------------------------------------------
(* Name search, as the specification words it *)

\* tok is a substring of s, letters compared without case
Contains(s, tok) ==
    \E i \in 0..(Len(s) - Len(tok)) :
        \A j \in 1..Len(tok) : LowerOf(tok[j]) = LowerOf(s[i + j])

SubstringMatch(parts, d) ==
    IF Len(parts) = 1
    THEN Contains(d.first_name, parts[1]) \/ Contains(d.last_name, parts[1])
    ELSE Contains(d.first_name, parts[1])
         /\ Contains(d.last_name, parts[Len(parts)])

Given(x) == x # None /\ x[1] # <<>>

(* C9, as stated: a search by a name of one token returns the records      *)
(* whose first or last name contains the token, a search by a name of      *)
(* several tokens those whose first name contains the first token and      *)
(* whose last name contains the last (substrings, without case); the       *)
(* student search keeps the records of the given classroom; at most 50     *)
(* records are returned.                                                   *)
C9_SubstringSearch ==
    /\ (/\ resp.route = "search_students" /\ Authenticated(resp.authorization)
        /\ Given(resp.args.name) /\ split(resp.args.name[1]) # <<>>) =>
           /\ resp.status = 200
           /\ Len(resp.body) <= SearchLimit
           /\ resp.body = SerializeAll(Take(SelectSeq(student,
                  LAMBDA d : /\ SubstringMatch(split(resp.args.name[1]), d)
                             /\ Given(resp.args.classroom_id) =>
                                    d.classroom_id = resp.args.classroom_id[1]),
                  SearchLimit))
    /\ (/\ resp.route = "list_teachers" /\ Authenticated(resp.authorization)
        /\ Given(resp.args.name) /\ split(resp.args.name[1]) # <<>>) =>
           /\ resp.status = 200
           /\ Len(resp.body) <= SearchLimit
           /\ resp.body = SerializeAll(Take(SelectSeq(teacher,
                  LAMBDA d : SubstringMatch(split(resp.args.name[1]), d)),
                  SearchLimit))

====
